---- MODULE Spec2Model ----
(***************************************************************************)
(* directory-mapper: the gitignore-style pattern list (PatternList), its   *)
(* segment / wildcard matching, and the directory walk that consults it.   *)
(* Strings are sequences of one-character strings, so that prefix, suffix, *)
(* split and join are computed as the Go code computes them.               *)
(***************************************************************************)
EXTENDS Naturals, Sequences, FiniteSets, TLC

VARIABLES
    pc,           \* position of the driver (main / the caller of the function under study)
    lines,        \* lines of the rule file not yet scanned by NewPatternList
    patterns,     \* pl.patterns, in file order
    call,         \* the latest PatternList.Matches call: path, stat outcome, result
    memo,         \* an earlier Matches call kept for comparison
    wild,         \* a matchWildcard call: pattern segment, path segment, result
    segs,         \* a matchSegments call: pattern segments, path segments, result
    fs,           \* the directory being walked (what os.ReadDir / os.Stat report)
    stack,        \* createTree: entries still to visit, depth first
    tree,         \* createTree: paths of the TreeNodes built so far
    contents,     \* writeFileContents: paths whose content was written
    disk,         \* the working directory: the rule file, whether files can be
                  \* created in it, whether project_structure.txt was created
    workers,      \* callers of Matches running side by side on one PatternList
    rec           \* the call stack of one Pattern.matches / matchSegments call

vars == <<pc, lines, patterns, call, memo, wild, segs, fs, stack, tree, contents,
          disk, workers, rec>>

----------------------------------------------------------------------------
(* Bounds of the model *)

MaxRules == 2
MaxWildLen == 3
MaxPatSegs == 3
MaxPathSegs == 3

----------------------------------------------------------------------------
(* package strings *)

Drop(s, n) == SubSeq(s, n + 1, Len(s))

Take(s, n) == SubSeq(s, 1, n)

HasPrefix(s, prefix) ==
    /\ Len(s) >= Len(prefix)
    /\ Take(s, Len(prefix)) = prefix

HasSuffix(s, suffix) ==
    /\ Len(s) >= Len(suffix)
    /\ Drop(s, Len(s) - Len(suffix)) = suffix

Contains(s, substr) ==
    \E i \in 0..Len(s) :
        /\ i + Len(substr) <= Len(s)
        /\ SubSeq(s, i + 1, i + Len(substr)) = substr

IsSpace(c) == c \in {" ", "\t"}

RECURSIVE TrimLeft(_)
TrimLeft(s) ==
    IF s # <<>> /\ IsSpace(Head(s)) THEN TrimLeft(Tail(s)) ELSE s

RECURSIVE TrimRight(_)
TrimRight(s) ==
    IF s # <<>> /\ IsSpace(s[Len(s)]) THEN TrimRight(Take(s, Len(s) - 1)) ELSE s

TrimSpace(s) == TrimRight(TrimLeft(s))

\* strings.Split(s, "/"): never empty, Split("") = [""]
RECURSIVE SplitFrom(_, _)
SplitFrom(s, cur) ==
    IF s = <<>> THEN <<cur>>
    ELSE IF Head(s) = "/" THEN <<cur>> \o SplitFrom(Tail(s), <<>>)
    ELSE SplitFrom(Tail(s), Append(cur, Head(s)))

Split(s) == SplitFrom(s, <<>>)

\* strings.Join(elems, "/")
RECURSIVE Join(_)
Join(elems) ==
    IF elems = <<>> THEN <<>>
    ELSE IF Len(elems) = 1 THEN elems[1]
    ELSE elems[1] \o <<"/">> \o Join(Tail(elems))

\* strings.ReplaceAll(s, "**", "\x00"): leftmost, non-overlapping
RECURSIVE ReplaceStars(_)
ReplaceStars(s) ==
    IF Len(s) >= 2 /\ s[1] = "*" /\ s[2] = "*"
    THEN <<"NUL">> \o ReplaceStars(Drop(s, 2))
    ELSE IF s = <<>> THEN <<>>
    ELSE <<Head(s)>> \o ReplaceStars(Tail(s))

\* strings.ReplaceAll(seg, "\x00", "**")
RECURSIVE RestoreStars(_)
RestoreStars(s) ==
    IF s = <<>> THEN <<>>
    ELSE IF Head(s) = "NUL" THEN <<"*", "*">> \o RestoreStars(Tail(s))
    ELSE <<Head(s)>> \o RestoreStars(Tail(s))

----------------------------------------------------------------------------
(* path/filepath *)

\* the lexical component pass of filepath.Clean
RECURSIVE CleanComps(_, _, _)
CleanComps(comps, out, rooted) ==
    IF comps = <<>> THEN out
    ELSE LET c == Head(comps)
             rest == Tail(comps)
         IN  IF c = <<>> \/ c = <<".">> THEN CleanComps(rest, out, rooted)
             ELSE IF c = <<".", ".">>
             THEN IF out # <<>> /\ out[Len(out)] # <<".", ".">>
                  THEN CleanComps(rest, Take(out, Len(out) - 1), rooted)
                  ELSE IF rooted THEN CleanComps(rest, out, rooted)
                  ELSE CleanComps(rest, Append(out, c), rooted)
             ELSE CleanComps(rest, Append(out, c), rooted)

Clean(path) ==
    IF path = <<>> THEN <<".">>
    ELSE LET rooted == Head(path) = "/"
             out == CleanComps(Split(path), <<>>, rooted)
         IN  IF rooted THEN <<"/">> \o Join(out)
             ELSE IF out = <<>> THEN <<".">>
             ELSE Join(out)

----------------------------------------------------------------------------
(* Pattern compilation *)

\* splitPattern: "**" is protected, the pattern is split on "/", "**" is restored
splitPattern(pattern) ==
    LET segments == Split(ReplaceStars(pattern))
    IN  [i \in 1..Len(segments) |-> RestoreStars(segments[i])]

\* The Pattern that AddPattern builds from one trimmed line
NewPattern(original) ==
    LET isNegation == HasPrefix(original, <<"!">>)
        isDir == HasSuffix(original, <<"/">>)
        p1 == IF isNegation THEN Drop(original, 1) ELSE original
        p2 == IF isDir THEN Take(p1, Len(p1) - 1) ELSE p1
        pattern == Clean(p2)
    IN  [original   |-> original,
         segments   |-> splitPattern(pattern),
         isNegation |-> isNegation,
         isExact    |-> (~Contains(pattern, <<"*">>)) \/ Contains(pattern, <<"?">>),
         isDir      |-> isDir]

\* the bounds of the slice expressions pattern[1:] and pattern[:len(pattern)-1]
AddPatternInRange(original) ==
    LET isNegation == HasPrefix(original, <<"!">>)
        isDir == HasSuffix(original, <<"/">>)
        p1 == IF isNegation THEN Drop(original, 1) ELSE original
    IN  /\ isNegation => 1 <= Len(original)
        /\ isDir => 1 <= Len(p1)

\* AddPattern putting the new rule in front of the list
AddPatternPrepend(pats, pattern) == <<NewPattern(pattern)>> \o pats

\* pl.AddPattern(pattern): appends, never fails
AddPattern(pats, pattern) == Append(pats, NewPattern(pattern))

----------------------------------------------------------------------------
(* Matching *)

\* matchWildcard: the regular expression it builds is never used; the result
\* comes from the prefix / suffix / substring shortcuts and plain equality
matchWildcard(pattern, path) ==
    IF pattern = <<"*">> THEN TRUE
    ELSE IF HasPrefix(pattern, <<"*">>) /\ HasSuffix(pattern, <<"*">>)
    THEN Contains(path, SubSeq(pattern, 2, Len(pattern) - 1))
    ELSE IF HasPrefix(pattern, <<"*">>)
    THEN HasSuffix(path, Drop(pattern, 1))
    ELSE IF HasSuffix(pattern, <<"*">>)
    THEN HasPrefix(path, Take(pattern, Len(pattern) - 1))
    ELSE pattern = path

\* matchSegments with a "**" that must absorb at least one segment
RECURSIVE matchSegmentsNoEmptyRun(_, _)
matchSegmentsNoEmptyRun(patternSegs, pathSegs) ==
    IF patternSegs = <<>> THEN pathSegs = <<>>
    ELSE IF pathSegs = <<>>
    THEN \A i \in 1..Len(patternSegs) : patternSegs[i] = <<"*", "*">>
    ELSE IF Head(patternSegs) = <<"*", "*">>
    THEN \/ matchSegmentsNoEmptyRun(Tail(patternSegs), Tail(pathSegs))
         \/ matchSegmentsNoEmptyRun(patternSegs, Tail(pathSegs))
    ELSE IF matchWildcard(Head(patternSegs), Head(pathSegs))
    THEN matchSegmentsNoEmptyRun(Tail(patternSegs), Tail(pathSegs))
    ELSE FALSE

RECURSIVE matchSegments(_, _)
matchSegments(patternSegs, pathSegs) ==
    IF patternSegs = <<>> THEN pathSegs = <<>>
    ELSE IF pathSegs = <<>>
    THEN \A i \in 1..Len(patternSegs) : patternSegs[i] = <<"*", "*">>
    ELSE IF Head(patternSegs) = <<"*", "*">>
    THEN \/ matchSegments(Tail(patternSegs), pathSegs)
         \/ matchSegments(patternSegs, Tail(pathSegs))
    ELSE IF matchWildcard(Head(patternSegs), Head(pathSegs))
    THEN matchSegments(Tail(patternSegs), Tail(pathSegs))
    ELSE FALSE

\* matches with a one-segment pattern tried against the last path segment too
matchesAtAnyDepth(p, path, isDir) ==
    IF p.isDir /\ ~isDir THEN FALSE
    ELSE IF p.isExact THEN Join(p.segments) = path
    ELSE \/ matchSegments(p.segments, Split(path))
         \/ /\ Len(p.segments) = 1
            /\ matchWildcard(p.segments[1], Split(path)[Len(Split(path))])

\* matches without the directory-only gate
matchesNoDirGate(p, path, isDir) ==
    IF p.isExact THEN Join(p.segments) = path
    ELSE matchSegments(p.segments, Split(path))

\* matches with an exact pattern compared to the base name of the path
matchesExactBasename(p, path, isDir) ==
    IF p.isDir /\ ~isDir THEN FALSE
    ELSE IF p.isExact
    THEN p.segments[Len(p.segments)] = Split(path)[Len(Split(path))]
    ELSE matchSegments(p.segments, Split(path))

\* (p *Pattern) matches(path, isDir)
matches(p, path, isDir) ==
    IF p.isDir /\ ~isDir THEN FALSE
    ELSE IF p.isExact THEN Join(p.segments) = path
    ELSE matchSegments(p.segments, Split(path))

\* one iteration of the loop of Matches that lets no rule take a match back
LoopStepNoUnmatch(p, relPath, isDir, result) ==
    IF matches(p, relPath, isDir) THEN result \/ ~p.isNegation ELSE result

\* one iteration of the loop of Matches: the new value of result
LoopStep(p, relPath, isDir, result) ==
    IF matches(p, relPath, isDir) THEN ~p.isNegation ELSE result

\* the loop of Matches stopping at the first pattern that matches
RECURSIVE MatchLoopFirstWins(_, _, _, _)
MatchLoopFirstWins(pats, relPath, isDir, result) ==
    IF pats = <<>> THEN result
    ELSE IF matches(Head(pats), relPath, isDir) THEN ~Head(pats).isNegation
    ELSE MatchLoopFirstWins(Tail(pats), relPath, isDir, result)

\* the loop of Matches: every pattern is tried, a match overwrites the result
RECURSIVE MatchLoop(_, _, _, _)
MatchLoop(pats, relPath, isDir, result) ==
    IF pats = <<>> THEN result
    ELSE MatchLoop(Tail(pats), relPath, isDir,
                   IF matches(Head(pats), relPath, isDir)
                   THEN ~Head(pats).isNegation
                   ELSE result)

\* What os.Stat / filepath.Rel report for the queried path
StatOutcomes == {"file", "dir", "statErr", "relErr"}

\* Matches going on to the patterns after a failed os.Stat, as for a file
MatchesIgnoringStatErr(pats, rel, stat) ==
    IF Len(pats) = 0 THEN FALSE
    ELSE IF stat = "relErr" THEN FALSE
    ELSE MatchLoop(pats, Clean(rel), stat = "dir", FALSE)

\* Matches answering from the previous call when the cleaned path is the same
MatchesCachedByPath(pats, rel, stat) ==
    IF Len(pats) = 0 THEN FALSE
    ELSE IF stat = "relErr" THEN FALSE
    ELSE IF stat = "statErr" THEN FALSE
    ELSE IF call.stat \in {"file", "dir"} /\ Clean(call.path) = Clean(rel)
    THEN call.result
    ELSE MatchLoop(pats, Clean(rel), stat = "dir", FALSE)

\* Matches with an empty list matching every path, as a filter list would
MatchesEmptyMatchesAll(pats, rel, stat) ==
    IF Len(pats) = 0 THEN TRUE
    ELSE IF stat = "relErr" THEN FALSE
    ELSE IF stat = "statErr" THEN FALSE
    ELSE MatchLoop(pats, Clean(rel), stat = "dir", FALSE)

\* (pl *PatternList) Matches(path); rel is the path relative to pl.basePath
Matches(pats, rel, stat) ==
    IF Len(pats) = 0 THEN FALSE
    ELSE IF stat = "relErr" THEN FALSE
    ELSE IF stat = "statErr" THEN FALSE
    ELSE MatchLoop(pats, Clean(rel), stat = "dir", FALSE)

----------------------------------------------------------------------------
(* Idle values of the parts of the state a specification does not use *)

NoCall == [path |-> <<>>, stat |-> "none", result |-> FALSE]

NoWild == [pattern |-> <<>>, path |-> <<>>, done |-> FALSE, result |-> FALSE]

NoSegs == [patternSegs |-> <<>>, pathSegs |-> <<>>, done |-> FALSE, result |-> FALSE]

NoFS == [d \in {} |-> <<>>]

NoDisk == [rule |-> "none", content |-> <<>>, writable |-> TRUE, output |-> FALSE]

NoWorkers == <<>>

NoRec == [frames |-> <<>>, ret |-> "none"]

\* a working directory whose rule file holds `file` and can be read
LoadedDisk(file) == [rule |-> "ok", content |-> file, writable |-> TRUE, output |-> FALSE]

StringsUpTo(chars, n) == UNION {[1..k -> chars] : k \in 0..n}

----------------------------------------------------------------------------
(* SpecWild: matchWildcard as a function of one pattern segment and one    *)
(* path segment.  matchSegments hands it segments of patterns that hold a  *)
(* "*" and no "?" (the others take the exact path), never the segment "**".*)

WildPatternChars == {"a", "b", "*"}

WildPathChars == {"a", "b"}

WildPatterns == StringsUpTo(WildPatternChars, MaxWildLen) \ {<<>>, <<"*", "*">>}

WildPaths == StringsUpTo(WildPathChars, MaxWildLen) \ {<<>>}

InitWild ==
    /\ pc = "wild"
    /\ lines = <<>>
    /\ patterns = <<>>
    /\ call = NoCall
    /\ memo = NoCall
    /\ wild \in {[pattern |-> p, path |-> s, done |-> FALSE, result |-> FALSE] :
                    p \in WildPatterns, s \in WildPaths}
    /\ segs = NoSegs
    /\ fs = NoFS
    /\ stack = <<>>
    /\ tree = {}
    /\ contents = {}
    /\ disk = NoDisk
    /\ workers = NoWorkers
    /\ rec = NoRec

CallMatchWildcard ==
    /\ pc = "wild"
    /\ ~wild.done
    /\ wild' = [wild EXCEPT !.done = TRUE,
                            !.result = matchWildcard(wild.pattern, wild.path)]
    /\ UNCHANGED <<pc, lines, patterns, call, memo, segs, fs, stack, tree, contents, disk, workers, rec>>

NextWild == CallMatchWildcard

SpecWild == InitWild /\ [][NextWild]_vars

----------------------------------------------------------------------------
(* Anchored glob matching of one segment, the reading the claims give to   *)
(* the wildcards: "*" is any run of characters, "?" is exactly one         *)
(* character, every other character stands for itself.                     *)

RECURSIVE GlobMatch(_, _)
GlobMatch(pattern, s) ==
    IF pattern = <<>> THEN s = <<>>
    ELSE IF Head(pattern) = "*"
    THEN GlobMatch(Tail(pattern), s) \/ (s # <<>> /\ GlobMatch(pattern, Tail(s)))
    ELSE IF s = <<>> THEN FALSE
    ELSE /\ Head(pattern) = "?" \/ Head(pattern) = Head(s)
         /\ GlobMatch(Tail(pattern), Tail(s))

\* C5: for every pattern segment and every path segment, matchWildcard
\* returns what anchored glob matching returns, "*" standing for any run of
\* zero or more characters and every other character for itself.
C5_WildcardIsGlob ==
    (pc = "wild" /\ wild.done) => wild.result = GlobMatch(wild.pattern, wild.path)

----------------------------------------------------------------------------
(* Texts used as inputs *)

Str_test_txt == <<"t", "e", "s", "t", ".", "t", "x", "t">>

Str_a_test_txt == <<"a", "/", "t", "e", "s", "t", ".", "t", "x", "t">>

Str_b_test_txt == <<"b", "/", "t", "e", "s", "t", ".", "t", "x", "t">>

Str_a_b_test_txt == <<"a", "/", "b", "/", "t", "e", "s", "t", ".", "t", "x", "t">>

Pat_any_test_txt == <<"*", "*", "/", "t", "e", "s", "t", ".", "t", "x", "t">>

Pat_star_log == <<"*", ".", "l", "o", "g">>

Pat_not_keep_log == <<"!", "k", "e", "e", "p", ".", "l", "o", "g">>

Pat_build_dir == <<"b", "u", "i", "l", "d", "/">>

Pat_not_build_dir == <<"!", "b", "u", "i", "l", "d", "/">>

Pat_bstar_dir == <<"b", "*", "/">>

Pat_star_go == <<"*", ".", "g", "o">>

Pat_any_star_go == <<"*", "*", "/", "*", ".", "g", "o">>

Pat_q_go == <<"?", ".", "g", "o">>

Pat_comment == <<"#", "x">>

Pat_padded_star_log == <<" ", "*", ".", "l", "o", "g">>

Str_README_md == <<"R", "E", "A", "D", "M", "E", ".", "m", "d">>

Str_docs_README_md == <<"d", "o", "c", "s", "/", "R", "E", "A", "D", "M", "E", ".", "m", "d">>

Str_keep_log == <<"k", "e", "e", "p", ".", "l", "o", "g">>

Str_dot_keep_log == <<".", "/", "k", "e", "e", "p", ".", "l", "o", "g">>

Str_debug_log == <<"d", "e", "b", "u", "g", ".", "l", "o", "g">>

Str_build == <<"b", "u", "i", "l", "d">>

Str_main_go == <<"m", "a", "i", "n", ".", "g", "o">>

Str_src_main_go == <<"s", "r", "c", "/", "m", "a", "i", "n", ".", "g", "o">>

Str_a_go == <<"a", ".", "g", "o">>

Str_b_go == <<"b", ".", "g", "o">>

Str_ab_go == <<"a", "b", ".", "g", "o">>

Str_dot_go == <<".", "g", "o">>

Pat_src_dir == <<"s", "r", "c", "/">>

Pat_not_src_main_go == <<"!", "s", "r", "c", "/", "m", "a", "i", "n", ".", "g", "o">>

Pat_a_dir == <<"a", "/">>

Pat_not_a_test_txt == <<"!", "a", "/", "t", "e", "s", "t", ".", "t", "x", "t">>

Pat_docs == <<"d", "o", "c", "s">>

Pat_star_txt == <<"*", ".", "t", "x", "t">>

Pat_dot_README_md == <<".", "/", "R", "E", "A", "D", "M", "E", ".", "m", "d">>

----------------------------------------------------------------------------
(* SpecSegs: matchSegments as a function of the pattern's segments and the *)
(* path's segments.  Pattern.matches calls it for patterns that are not    *)
(* exact, that is, that hold a "*"; both lists come from strings.Split and *)
(* hold at least one segment.                                              *)

SegTokens == {<<"*", "*">>, <<"*">>, <<"a">>, <<"b">>}

PathTokens == {<<"a">>, <<"b">>}

SeqsUpTo(S, n) == UNION {[1..k -> S] : k \in 1..n}

SegPatterns ==
    {ps \in SeqsUpTo(SegTokens, MaxPatSegs) : Contains(Join(ps), <<"*">>)}
        \cup {splitPattern(Pat_any_test_txt)}

SegPaths ==
    SeqsUpTo(PathTokens, MaxPathSegs)
        \cup {Split(Str_test_txt), Split(Str_a_test_txt), Split(Str_a_b_test_txt)}

InitSegs ==
    /\ pc = "segs"
    /\ lines = <<>>
    /\ patterns = <<>>
    /\ call = NoCall
    /\ memo = NoCall
    /\ wild = NoWild
    /\ segs \in {[patternSegs |-> ps, pathSegs |-> qs, done |-> FALSE, result |-> FALSE] :
                    ps \in SegPatterns, qs \in SegPaths}
    /\ fs = NoFS
    /\ stack = <<>>
    /\ tree = {}
    /\ contents = {}
    /\ disk = NoDisk
    /\ workers = NoWorkers
    /\ rec = NoRec

CallMatchSegments ==
    /\ pc = "segs"
    /\ ~segs.done
    /\ segs' = [segs EXCEPT !.done = TRUE,
                            !.result = matchSegments(segs.patternSegs, segs.pathSegs)]
    /\ UNCHANGED <<pc, lines, patterns, call, memo, wild, fs, stack, tree, contents, disk, workers, rec>>

NextSegs == CallMatchSegments

SpecSegs == InitSegs /\ [][NextSegs]_vars

IsDoubleStar(seg) == seg = <<"*", "*">>

\* the number of path segments taken by the first k pattern segments when the
\* i-th "**" takes run[i] of them and every other segment takes one
RECURSIVE Taken(_, _, _)
Taken(patternSegs, run, k) ==
    IF k = 0 THEN 0
    ELSE Taken(patternSegs, run, k - 1)
            + (IF IsDoubleStar(patternSegs[k]) THEN run[k] ELSE 1)

\* the path segments can be split so that each "**" absorbs a (possibly empty)
\* run of consecutive segments and every other pattern segment matches one
SplitMatch(patternSegs, pathSegs) ==
    LET n == Len(patternSegs)
        m == Len(pathSegs)
        stars == {i \in 1..n : IsDoubleStar(patternSegs[i])}
    IN  \E run \in [stars -> 0..m] :
            /\ Taken(patternSegs, run, n) = m
            /\ \A i \in (1..n) \ stars :
                   LET at == Taken(patternSegs, run, i)
                   IN  at <= m /\ matchWildcard(patternSegs[i], pathSegs[at])

\* whether the rule written as `line` matches the file at `path`
RuleMatchesFile(line, path) == matches(NewPattern(line), path, FALSE)

\* C2: matchSegments is true exactly when the path segments can be split so
\* that each "**" absorbs zero or more whole segments and every other pattern
\* segment matches exactly one; rule "**/test.txt" matches test.txt,
\* a/test.txt and a/b/test.txt, rule "a/test.txt" matches only a/test.txt.
C2_DoubleStarAbsorbsRuns ==
    /\ (pc = "segs" /\ segs.done) =>
           segs.result = SplitMatch(segs.patternSegs, segs.pathSegs)
    /\ RuleMatchesFile(Pat_any_test_txt, Str_test_txt)
    /\ RuleMatchesFile(Pat_any_test_txt, Str_a_test_txt)
    /\ RuleMatchesFile(Pat_any_test_txt, Str_a_b_test_txt)
    /\ RuleMatchesFile(Str_a_test_txt, Str_a_test_txt)
    /\ ~RuleMatchesFile(Str_a_test_txt, Str_test_txt)
    /\ ~RuleMatchesFile(Str_a_test_txt, Str_a_b_test_txt)
    /\ ~RuleMatchesFile(Str_a_test_txt, Str_b_test_txt)

\* a "**" has absorbed two segments, and one has absorbed none
C2_Witness ==
    /\ pc = "segs" /\ segs.done /\ segs.result
    /\ segs.patternSegs = <<<<"*", "*">>, <<"a">>, <<"*", "*">>>>
    /\ segs.pathSegs = <<<<"b">>, <<"b">>, <<"a">>>>

----------------------------------------------------------------------------
(* SpecMatch: NewPatternList scans a rule file, then the driver calls      *)
(* Matches for the paths it meets.                                         *)

RuleLines ==
    {Pat_star_log, Pat_not_keep_log, Pat_build_dir, Pat_not_build_dir, Pat_bstar_dir,
     Pat_star_go, Pat_any_star_go, Pat_q_go, Str_README_md, Pat_dot_README_md,
     Pat_comment, Pat_padded_star_log}

RuleFiles == UNION {[1..k -> RuleLines] : k \in 0..MaxRules}

QueryPaths ==
    {Str_keep_log, Str_dot_keep_log, Str_debug_log, Str_build, Str_main_go,
     Str_src_main_go, Str_README_md, Str_docs_README_md, Str_a_go, Str_b_go,
     Str_ab_go, Str_dot_go}

InitMatch ==
    /\ pc = "scan"
    /\ lines \in RuleFiles
    /\ patterns = <<>>
    /\ call = NoCall
    /\ memo = NoCall
    /\ wild = NoWild
    /\ segs = NoSegs
    /\ fs = NoFS
    /\ stack = <<>>
    /\ tree = {}
    /\ contents = {}
    /\ disk = NoDisk
    /\ workers = NoWorkers
    /\ rec = NoRec

\* What the rule file can be when NewPatternList looks for it: not there,
\* there but not openable, openable with a read that fails, or readable;
\* "created" is the empty file NewPatternList wrote because there was none
RuleFileStates == {"absent", "noOpen", "readErr", "ok"}

\* NewPatternList up to the scanner, going on without a rule file when there
\* is none
OpenRuleFileNoCreate ==
    /\ pc = "start"
    /\ patterns' = <<>>
    /\ IF disk.rule = "absent"
       THEN /\ pc' = "ready"
            /\ UNCHANGED <<disk, lines>>
       ELSE IF disk.rule = "noOpen"
       THEN /\ pc' = "failed"
            /\ UNCHANGED <<disk, lines>>
       ELSE /\ pc' = "scan"
            /\ lines' = disk.content
            /\ disk' = disk
    /\ UNCHANGED <<call, memo, wild, segs, fs, stack, tree, contents, workers, rec>>

\* NewPatternList up to the scanner: an absent rule file is created empty
\* and the empty list returned; a file that cannot be created or opened is
\* an error, on which main exits
OpenRuleFile ==
    /\ pc = "start"
    /\ patterns' = <<>>
    /\ IF disk.rule = "absent"
       THEN IF disk.writable
            THEN /\ disk' = [disk EXCEPT !.rule = "created", !.content = <<>>]
                 /\ pc' = "ready"
                 /\ lines' = lines
            ELSE /\ pc' = "failed"
                 /\ UNCHANGED <<disk, lines>>
       ELSE IF disk.rule = "noOpen"
       THEN /\ pc' = "failed"
            /\ UNCHANGED <<disk, lines>>
       ELSE /\ pc' = "scan"
            /\ lines' = disk.content
            /\ disk' = disk
    /\ UNCHANGED <<call, memo, wild, segs, fs, stack, tree, contents, workers, rec>>

\* one turn of the scanner loop of NewPatternList; a slice expression of
\* AddPattern with an index out of range panics
ScanLine ==
    /\ pc = "scan"
    /\ lines # <<>>
    /\ LET pattern == TrimSpace(Head(lines))
       IN  IF pattern = <<>> \/ HasPrefix(pattern, <<"#">>)
           THEN /\ patterns' = patterns
                /\ pc' = pc
           ELSE IF AddPatternInRange(pattern)
           THEN /\ patterns' = AddPattern(patterns, pattern)
                /\ pc' = pc
           ELSE /\ patterns' = patterns
                /\ pc' = "panic"
    /\ lines' = Tail(lines)
    /\ UNCHANGED <<call, memo, wild, segs, fs, stack, tree, contents, disk, workers, rec>>

\* a read of the rule file fails: the scanner loop ends, NewPatternList
\* returns scanner.Err() and main exits
ScanFail ==
    /\ pc = "scan"
    /\ disk.rule = "readErr"
    /\ pc' = "failed"
    /\ UNCHANGED <<lines, patterns, call, memo, wild, segs, fs, stack, tree, contents,
                   disk, workers, rec>>

\* the end of the scanner loop with scanner.Err() not looked at
ScanDoneIgnoringErr ==
    /\ pc = "scan"
    /\ lines = <<>>
    /\ pc' = "ready"
    /\ UNCHANGED <<lines, patterns, call, memo, wild, segs, fs, stack, tree, contents,
                   disk, workers, rec>>

\* the scanner is at the end of the file: NewPatternList returns the list
ScanDone ==
    /\ pc = "scan"
    /\ lines = <<>>
    /\ disk.rule # "readErr"
    /\ pc' = "ready"
    /\ UNCHANGED <<lines, patterns, call, memo, wild, segs, fs, stack, tree, contents, disk, workers, rec>>

\* a call of pl.Matches; the pattern list is only read
CallMatches ==
    /\ pc = "ready"
    /\ \E path \in QueryPaths, stat \in StatOutcomes :
           call' = [path |-> path, stat |-> stat,
                    result |-> Matches(patterns, path, stat)]
    /\ UNCHANGED <<pc, lines, patterns, memo, wild, segs, fs, stack, tree, contents, disk, workers, rec>>

NextMatch == ScanLine \/ ScanDone \/ CallMatches

SpecMatch == InitMatch /\ [][NextMatch]_vars

----------------------------------------------------------------------------
(* The Matches call under study *)

\* Matches has returned for a path that os.Stat could read
CallDone == pc = "ready" /\ call.stat \in {"file", "dir"}

CallRel == Clean(call.path)

CallIsDir == call.stat = "dir"

\* the rule lines compiled, in order
Originals == [i \in 1..Len(patterns) |-> patterns[i].original]

Last(S) == CHOOSE i \in S : \A j \in S : j <= i

\* the verdict of the last rule, in file order, that matches
LastMatchVerdict(pats, rel, isDir) ==
    LET hit == {i \in 1..Len(pats) : matches(pats[i], rel, isDir)}
    IN  IF hit = {} THEN FALSE ELSE ~pats[Last(hit)].isNegation

\* C1: Matches returns the negation of the isNegation flag of the last rule,
\* in file order, that matches the path, and false when no rule matches;
\* ["*.log", "!keep.log"] leaves keep.log not excluded and debug.log excluded,
\* ["!keep.log", "*.log"] leaves keep.log excluded.
C1_LastMatchWins ==
    /\ CallDone => call.result = LastMatchVerdict(patterns, CallRel, CallIsDir)
    /\ (CallDone /\ Originals = <<Pat_star_log, Pat_not_keep_log>>) =>
           /\ call.path = Str_keep_log => ~call.result
           /\ call.path = Str_debug_log => call.result
    /\ (CallDone /\ Originals = <<Pat_not_keep_log, Pat_star_log>>) =>
           (call.path = Str_keep_log => call.result)

\* keep.log was queried under ["*.log", "!keep.log"]: both rules match, the later wins
C1_Witness ==
    /\ CallDone
    /\ Originals = <<Pat_star_log, Pat_not_keep_log>>
    /\ call.path = Str_keep_log
    /\ ~call.result

HasDoubleStarSegment(p) == \E j \in 1..Len(p.segments) : IsDoubleStar(p.segments[j])

\* C3: a rule with n segments and no "**" segment matches only paths with
\* exactly n segments; rule "*.go" matches main.go and not src/main.go, rule
\* "**/*.go" matches both.
C3_StarStaysInSegment ==
    /\ CallDone =>
           \A i \in 1..Len(patterns) :
               (~HasDoubleStarSegment(patterns[i])
                   /\ matches(patterns[i], CallRel, CallIsDir))
               => Len(Split(CallRel)) = Len(patterns[i].segments)
    /\ (CallDone /\ Originals = <<Pat_star_go>>) =>
           /\ call.path = Str_main_go => call.result
           /\ call.path = Str_src_main_go => ~call.result
    /\ (CallDone /\ Originals = <<Pat_any_star_go>>) =>
           (call.path \in {Str_main_go, Str_src_main_go} => call.result)

\* src/main.go was queried under ["*.go"] and is not excluded
C3_Witness ==
    /\ CallDone
    /\ Originals = <<Pat_star_go>>
    /\ call.path = Str_src_main_go
    /\ ~call.result

\* C4: "?" matches exactly one character of the path segment, also in a rule
\* without "*": rule "?.go" matches a.go and b.go but not ab.go or .go.
C4_QuestionMarkIsOneChar ==
    (CallDone /\ call.stat = "file" /\ Originals = <<Pat_q_go>>) =>
        /\ call.path \in {Str_a_go, Str_b_go} => call.result
        /\ call.path \in {Str_ab_go, Str_dot_go} => ~call.result

IsDirOnlyLine(original) == HasSuffix(original, <<"/">>)

\* C6: a rule whose line ends with "/" never matches a path whose directory
\* flag is false, exact or wildcard, negated or not, and matches directories
\* by the ordinary algorithm; rule "build/" excludes directory build and
\* does not exclude a file named build.
C6_DirectoryOnlyGate ==
    /\ (CallDone /\ ~CallIsDir) =>
           /\ \A i \in 1..Len(patterns) :
                  IsDirOnlyLine(patterns[i].original)
                      => ~matches(patterns[i], CallRel, FALSE)
           /\ (\A i \in 1..Len(patterns) : IsDirOnlyLine(patterns[i].original))
                  => ~call.result
    /\ (CallDone /\ CallIsDir) =>
           \A i \in 1..Len(patterns) :
               matches(patterns[i], CallRel, TRUE)
                   = matches([patterns[i] EXCEPT !.isDir = FALSE], CallRel, TRUE)
    /\ (CallDone /\ Originals = <<Pat_build_dir>> /\ call.path = Str_build) =>
           call.result = CallIsDir

\* a file named build was queried under ["build/"] and is not excluded
C6_Witness ==
    /\ CallDone
    /\ Originals = <<Pat_build_dir>>
    /\ call.path = Str_build
    /\ call.stat = "file"
    /\ ~call.result

HasWildcardChar(text) == Contains(text, <<"*">>) \/ Contains(text, <<"?">>)

\* the rule's pattern text: the line without its "!" and its final "/", cleaned
RuleText(original) ==
    LET t1 == IF HasPrefix(original, <<"!">>) THEN Drop(original, 1) ELSE original
        t2 == IF IsDirOnlyLine(original) THEN Take(t1, Len(t1) - 1) ELSE t1
    IN  Clean(t2)

\* C7: a rule without wildcard characters matches a path iff its pattern
\* equals the normalized relative path (subject to the directory-only gate);
\* rule "README.md" matches README.md and not docs/README.md.
C7_ExactPattern ==
    /\ CallDone =>
           \A i \in 1..Len(patterns) :
               ~HasWildcardChar(patterns[i].original) =>
                   (matches(patterns[i], CallRel, CallIsDir)
                       <=> /\ ~(IsDirOnlyLine(patterns[i].original) /\ ~CallIsDir)
                           /\ RuleText(patterns[i].original) = CallRel)
    /\ (CallDone /\ Originals \in {<<Str_README_md>>, <<Pat_dot_README_md>>}) =>
           /\ call.path = Str_README_md => call.result
           /\ call.path = Str_docs_README_md => ~call.result

\* docs/README.md was queried under ["README.md"] and is not excluded
C7_Witness ==
    /\ CallDone
    /\ Originals = <<Str_README_md>>
    /\ call.path = Str_docs_README_md
    /\ ~call.result

\* C9: when the path cannot be made relative to the base directory, or its
\* stat fails, Matches returns false whatever the rule list contains.
C9_FailOpen ==
    (pc = "ready" /\ call.stat \in {"relErr", "statErr"}) => call.result = FALSE

\* the stat of debug.log failed under ["*.log"], a rule that matches the path text
C9_Witness ==
    /\ pc = "ready"
    /\ call.stat = "statErr"
    /\ Originals = <<Pat_star_log>>
    /\ call.path = Str_debug_log
    /\ LastMatchVerdict(patterns, CallRel, FALSE)
    /\ ~call.result

\* C11: when the compiled rule list is empty, Matches returns false for every
\* path and every directory flag.
C11_EmptyRuleSet ==
    (pc = "ready" /\ call.stat # "none" /\ patterns = <<>>) => call.result = FALSE

\* directory build was queried under a rule file that holds no rule
C11_Witness ==
    /\ pc = "ready"
    /\ patterns = <<>>
    /\ call.path = Str_build
    /\ call.stat = "dir"
    /\ ~call.result

----------------------------------------------------------------------------
(* SpecDet: the same program, with one earlier Matches call kept so that   *)
(* two calls of one run can be compared.                                   *)

DetRuleFiles ==
    {<<Pat_star_log, Pat_not_keep_log>>, <<Pat_not_keep_log, Pat_star_log>>,
     <<Pat_build_dir>>, <<Pat_any_star_go, Str_README_md>>}

InitDet ==
    /\ pc = "scan"
    /\ lines \in DetRuleFiles
    /\ patterns = <<>>
    /\ call = NoCall
    /\ memo = NoCall
    /\ wild = NoWild
    /\ segs = NoSegs
    /\ fs = NoFS
    /\ stack = <<>>
    /\ tree = {}
    /\ contents = {}
    /\ disk = NoDisk
    /\ workers = NoWorkers
    /\ rec = NoRec

\* a further call of pl.Matches; the call before it is the one kept
CallMatchesAgain ==
    /\ pc = "ready"
    /\ call.stat # "none"
    /\ \E path \in QueryPaths, stat \in StatOutcomes :
           call' = [path |-> path, stat |-> stat,
                    result |-> Matches(patterns, path, stat)]
    /\ memo' = call
    /\ UNCHANGED <<pc, lines, patterns, wild, segs, fs, stack, tree, contents, disk, workers, rec>>

NextDet == ScanLine \/ ScanDone \/ CallMatches \/ CallMatchesAgain

SpecDet == InitDet /\ [][NextDet]_vars

----------------------------------------------------------------------------
(* The built-in exclusions *)

skipDirs ==
    {<<".", "g", "i", "t">>,
     <<"n", "o", "d", "e", "_", "m", "o", "d", "u", "l", "e", "s">>,
     <<"b", "i", "n">>,
     <<"o", "b", "j">>,
     <<"b", "u", "i", "l", "d">>,
     <<"d", "i", "s", "t">>,
     <<"t", "a", "r", "g", "e", "t">>,
     <<".", "i", "d", "e", "a">>,
     <<".", "v", "s", "c", "o", "d", "e">>,
     <<"_", "_", "p", "y", "c", "a", "c", "h", "e", "_", "_">>,
     <<".", "n", "e", "x", "t">>,
     <<"v", "e", "n", "d", "o", "r">>}

skipExtensions ==
    {<<".", "e", "x", "e">>,
     <<".", "d", "l", "l">>,
     <<".", "s", "o">>,
     <<".", "d", "y", "l", "i", "b">>,
     <<".", "b", "i", "n">>,
     <<".", "o", "b", "j">>,
     <<".", "c", "l", "a", "s", "s">>,
     <<".", "p", "y", "c">>,
     <<".", "p", "d", "b">>,
     <<".", "c", "a", "c", "h", "e">>,
     <<".", "j", "p", "g">>,
     <<".", "j", "p", "e", "g">>,
     <<".", "p", "n", "g">>,
     <<".", "g", "i", "f">>,
     <<".", "i", "c", "o">>,
     <<".", "p", "d", "f">>,
     <<".", "z", "i", "p">>,
     <<".", "t", "a", "r">>,
     <<".", "g", "z">>,
     <<".", "r", "a", "r">>,
     <<".", "7", "z">>,
     <<".", "d", "b">>,
     <<".", "s", "q", "l", "i", "t", "e">>,
     <<".", "m", "d", "b">>,
     <<".", "i", "s", "o">>,
     <<".", "i", "m", "g">>,
     <<".", "l", "o", "g">>,
     <<".", "l", "o", "c", "k">>}

skipFiles ==
    {<<"p", "r", "o", "j", "e", "c", "t", "_", "s", "t", "r", "u", "c", "t", "u", "r", "e", ".", "t", "x", "t">>,
     <<".", "p", "r", "o", "j", "e", "c", "t", "_", "s", "t", "r", "u", "c", "t", "u", "r", "e", "_", "i", "g", "n", "o", "r", "e">>,
     <<".", "p", "r", "o", "j", "e", "c", "t", "_", "s", "t", "r", "u", "c", "t", "u", "r", "e", "_", "f", "i", "l", "t", "e", "r">>,
     <<".", "D", "S", "_", "S", "t", "o", "r", "e">>,
     <<"T", "h", "u", "m", "b", "s", ".", "d", "b">>,
     <<".", "g", "i", "t", "i", "g", "n", "o", "r", "e">>,
     <<".", "e", "n", "v">>,
     <<".", "e", "n", "v", ".", "l", "o", "c", "a", "l">>,
     <<"d", "e", "s", "k", "t", "o", "p", ".", "i", "n", "i">>}

maxFileSize == 52428800

UpperCase == <<"A", "B", "C", "D", "E", "F", "G", "H", "I", "J", "K", "L", "M",
               "N", "O", "P", "Q", "R", "S", "T", "U", "V", "W", "X", "Y", "Z">>

LowerCase == <<"a", "b", "c", "d", "e", "f", "g", "h", "i", "j", "k", "l", "m",
               "n", "o", "p", "q", "r", "s", "t", "u", "v", "w", "x", "y", "z">>

\* strings.ToLower
ToLower(s) ==
    [i \in 1..Len(s) |->
        IF \E k \in 1..26 : UpperCase[k] = s[i]
        THEN LowerCase[CHOOSE k \in 1..26 : UpperCase[k] = s[i]]
        ELSE s[i]]

\* filepath.Ext of a file name: from its last "." on, "" without one
Ext(name) ==
    LET dots == {i \in 1..Len(name) : name[i] = "."}
    IN  IF dots = {} THEN <<>> ELSE Drop(name, Last(dots) - 1)

\* what os.Stat reports inside Matches for a directory entry
StatOf(entry) ==
    IF ~entry.statOK THEN "statErr" ELSE IF entry.isDir THEN "dir" ELSE "file"

\* shouldSkipFile with the ignore patterns consulted for files only
shouldSkipFileDirsKept(entry, rel, pats) ==
    IF ~entry.isDir /\ Matches(pats, rel, StatOf(entry)) THEN TRUE
    ELSE IF entry.name \in skipFiles THEN TRUE
    ELSE IF entry.isDir /\ entry.name \in skipDirs THEN TRUE
    ELSE IF ~entry.isDir
    THEN IF ToLower(Ext(entry.name)) \in skipExtensions THEN TRUE
         ELSE IF entry.size > maxFileSize THEN TRUE
         ELSE IF ~entry.readable THEN TRUE
         ELSE FALSE
    ELSE FALSE

\* shouldSkipFile with a matching negation rule keeping the entry whatever
\* the built-in sets say
shouldSkipFileNegationKeeps(entry, rel, pats) ==
    IF Matches(pats, rel, StatOf(entry)) THEN TRUE
    ELSE IF \E i \in 1..Len(pats) :
                /\ pats[i].isNegation
                /\ entry.statOK
                /\ matches(pats[i], Clean(rel), entry.isDir)
    THEN FALSE
    ELSE IF entry.name \in skipFiles THEN TRUE
    ELSE IF entry.isDir /\ entry.name \in skipDirs THEN TRUE
    ELSE IF ~entry.isDir
    THEN IF ToLower(Ext(entry.name)) \in skipExtensions THEN TRUE
         ELSE IF entry.size > maxFileSize THEN TRUE
         ELSE IF ~entry.readable THEN TRUE
         ELSE FALSE
    ELSE FALSE

\* shouldSkipFile(entry, fullPath, ignoreMatcher); rel is fullPath relative to
\* the working directory
shouldSkipFile(entry, rel, pats) ==
    IF Matches(pats, rel, StatOf(entry)) THEN TRUE
    ELSE IF entry.name \in skipFiles THEN TRUE
    ELSE IF entry.isDir /\ entry.name \in skipDirs THEN TRUE
    ELSE IF ~entry.isDir
    THEN IF ToLower(Ext(entry.name)) \in skipExtensions THEN TRUE
         ELSE IF entry.size > maxFileSize THEN TRUE
         ELSE IF ~entry.readable THEN TRUE
         ELSE FALSE
    ELSE FALSE

----------------------------------------------------------------------------
(* SpecWalk: main compiles the rule file, builds the tree depth first and  *)
(* writes the contents of the files of the tree.  A directory is given by  *)
(* what os.ReadDir returns for each of its directories, sorted by name.    *)

Tree1 ==
    (<<>> :>
        <<[name |-> <<"b", "i", "g", ".", "d", "a", "t">>, isDir |-> FALSE, statOK |-> TRUE, size |-> maxFileSize + 1, readable |-> TRUE],
          [name |-> <<"b", "i", "n">>, isDir |-> FALSE, statOK |-> TRUE, size |-> 10, readable |-> TRUE],
          [name |-> <<"b", "u", "i", "l", "d">>, isDir |-> TRUE, statOK |-> TRUE, size |-> 10, readable |-> TRUE],
          [name |-> <<"d", "o", "c", "s">>, isDir |-> TRUE, statOK |-> TRUE, size |-> 10, readable |-> TRUE],
          [name |-> <<"l", "i", "n", "k">>, isDir |-> FALSE, statOK |-> FALSE, size |-> 10, readable |-> FALSE],
          [name |-> <<"m", "a", "i", "n", ".", "g", "o">>, isDir |-> FALSE, statOK |-> TRUE, size |-> 10, readable |-> TRUE],
          [name |-> <<"n", "o", "t", "e", "s", ".", "t", "x", "t">>, isDir |-> FALSE, statOK |-> TRUE, size |-> 10, readable |-> TRUE],
          [name |-> <<"p", "r", "o", "j", "e", "c", "t", "_", "s", "t", "r", "u", "c", "t", "u", "r", "e", ".", "t", "x", "t">>, isDir |-> FALSE, statOK |-> TRUE, size |-> 10, readable |-> TRUE],
          [name |-> <<"s", "e", "c", "r", "e", "t", ".", "t", "x", "t">>, isDir |-> FALSE, statOK |-> TRUE, size |-> 10, readable |-> FALSE],
          [name |-> <<"s", "r", "c">>, isDir |-> TRUE, statOK |-> TRUE, size |-> 10, readable |-> TRUE]>>)
    @@
    (<<<<"b", "u", "i", "l", "d">>>> :>
        <<[name |-> <<"o", "u", "t", ".", "t", "x", "t">>, isDir |-> FALSE, statOK |-> TRUE, size |-> 10, readable |-> TRUE]>>)
    @@
    (<<<<"d", "o", "c", "s">>>> :>
        <<[name |-> <<"R", "E", "A", "D", "M", "E", ".", "m", "d">>, isDir |-> FALSE, statOK |-> TRUE, size |-> 10, readable |-> TRUE],
          [name |-> <<"a", ".", "p", "n", "g">>, isDir |-> FALSE, statOK |-> TRUE, size |-> 10, readable |-> TRUE]>>)
    @@
    (<<<<"s", "r", "c">>>> :>
        <<[name |-> <<"g", "e", "n">>, isDir |-> TRUE, statOK |-> TRUE, size |-> 10, readable |-> TRUE],
          [name |-> <<"m", "a", "i", "n", ".", "g", "o">>, isDir |-> FALSE, statOK |-> TRUE, size |-> 10, readable |-> TRUE],
          [name |-> <<"u", "t", "i", "l", ".", "g", "o">>, isDir |-> FALSE, statOK |-> TRUE, size |-> 10, readable |-> TRUE]>>)
    @@
    (<<<<"s", "r", "c">>, <<"g", "e", "n">>>> :>
        <<[name |-> <<"x", ".", "g", "o">>, isDir |-> FALSE, statOK |-> TRUE, size |-> 10, readable |-> TRUE]>>)

Tree2 ==
    (<<>> :>
        <<[name |-> <<"P", "H", "O", "T", "O", ".", "J", "P", "G">>, isDir |-> FALSE, statOK |-> TRUE, size |-> 10, readable |-> TRUE],
          [name |-> <<"a">>, isDir |-> TRUE, statOK |-> TRUE, size |-> 10, readable |-> TRUE],
          [name |-> <<"e", "d", "g", "e", ".", "d", "a", "t">>, isDir |-> FALSE, statOK |-> TRUE, size |-> maxFileSize, readable |-> TRUE],
          [name |-> <<"t", "e", "s", "t", ".", "t", "x", "t">>, isDir |-> FALSE, statOK |-> TRUE, size |-> 10, readable |-> TRUE],
          [name |-> <<"v", "e", "n", "d", "o", "r">>, isDir |-> TRUE, statOK |-> TRUE, size |-> 10, readable |-> TRUE]>>)
    @@
    (<<<<"a">>>> :>
        <<[name |-> <<"b">>, isDir |-> TRUE, statOK |-> TRUE, size |-> 10, readable |-> TRUE],
          [name |-> <<"t", "e", "s", "t", ".", "t", "x", "t">>, isDir |-> FALSE, statOK |-> TRUE, size |-> 10, readable |-> TRUE]>>)
    @@
    (<<<<"a">>, <<"b">>>> :>
        <<[name |-> <<"t", "e", "s", "t", ".", "t", "x", "t">>, isDir |-> FALSE, statOK |-> TRUE, size |-> 10, readable |-> TRUE]>>)
    @@
    (<<<<"v", "e", "n", "d", "o", "r">>>> :>
        <<[name |-> <<"x", ".", "g", "o">>, isDir |-> FALSE, statOK |-> TRUE, size |-> 10, readable |-> TRUE]>>)

DirTrees == {Tree1, Tree2}

Pat_not_vendor_dir == <<"!", "v", "e", "n", "d", "o", "r", "/">>

WalkRuleFiles ==
    {<<>>, <<Pat_src_dir>>, <<Pat_src_dir, Pat_not_src_main_go>>, <<Pat_any_star_go>>,
     <<Pat_star_go>>, <<Pat_any_test_txt>>, <<Pat_a_dir, Pat_not_a_test_txt>>,
     <<Pat_docs, Pat_star_txt>>, <<Pat_not_build_dir>>, <<Pat_not_vendor_dir>>}

\* os.ReadDir(dir) with each entry's path below the root
Children(dir) ==
    IF dir \in DOMAIN fs
    THEN [i \in 1..Len(fs[dir]) |-> [path |-> Append(dir, fs[dir][i].name),
                                      entry |-> fs[dir][i]]]
    ELSE <<>>

\* the directory entry at a path below the root
EntryAt(path) ==
    LET dir == Take(path, Len(path) - 1)
        i == CHOOSE k \in 1..Len(fs[dir]) : fs[dir][k].name = path[Len(path)]
    IN  fs[dir][i]

\* what main can find in the working directory
WalkDisks ==
    {d \in [rule : RuleFileStates, content : WalkRuleFiles,
            writable : BOOLEAN, output : {FALSE}] :
        d.rule = "absent" => d.content = <<>>}

InitWalk ==
    /\ pc = "start"
    /\ lines = <<>>
    /\ patterns = <<>>
    /\ call = NoCall
    /\ memo = NoCall
    /\ wild = NoWild
    /\ segs = NoSegs
    /\ fs \in DirTrees
    /\ stack = <<>>
    /\ tree = {}
    /\ contents = {}
    /\ disk \in WalkDisks
    /\ workers = NoWorkers
    /\ rec = NoRec

\* main creates the output file, exiting when it cannot, and calls
\* createTree on the working directory: the root node, then its entries
StartWalk ==
    /\ pc = "ready"
    /\ IF disk.writable
       THEN /\ disk' = [disk EXCEPT !.output = TRUE]
            /\ pc' = "walk"
            /\ tree' = {<<>>}
            /\ stack' = Children(<<>>)
       ELSE /\ pc' = "failed"
            /\ UNCHANGED <<disk, tree, stack>>
    /\ UNCHANGED <<lines, patterns, call, memo, wild, segs, fs, contents, workers, rec>>

\* one turn of the loop of createTree: the next entry is skipped, or gets a
\* node and, when it is a directory, is descended into
VisitEntry ==
    /\ pc = "walk"
    /\ stack # <<>>
    /\ LET x == Head(stack)
           rel == Join(x.path)
           skip == shouldSkipFile(x.entry, rel, patterns)
       IN  /\ call' = [path |-> rel, stat |-> StatOf(x.entry),
                       result |-> Matches(patterns, rel, StatOf(x.entry))]
           /\ tree' = IF skip THEN tree ELSE tree \cup {x.path}
           /\ stack' = IF skip \/ ~x.entry.isDir
                       THEN Tail(stack)
                       ELSE Children(x.path) \o Tail(stack)
    /\ UNCHANGED <<pc, lines, patterns, memo, wild, segs, fs, contents, disk, workers, rec>>

\* createTree has returned: main prints the tree and writeFileContents
\* writes every file node of it
WriteOutput ==
    /\ pc = "walk"
    /\ stack = <<>>
    /\ pc' = "done"
    /\ contents' = {p \in tree : p # <<>> /\ ~EntryAt(p).isDir}
    /\ UNCHANGED <<lines, patterns, call, memo, wild, segs, fs, stack, tree, disk, workers, rec>>

NextWalk ==
    \/ OpenRuleFile \/ ScanLine \/ ScanFail \/ ScanDone
    \/ StartWalk \/ VisitEntry \/ WriteOutput

SpecWalk == InitWalk /\ [][NextWalk]_vars

\* the matcher's verdict for the entry at a path
Excluded(path) == Matches(patterns, Join(path), StatOf(EntryAt(path)))

\* C8: no entry is in the tree, or in the file contents, if the matcher
\* excludes it or any of its ancestor directories below the root, also when a
\* later negation rule matches the entry's own path.
C8_Pruning ==
    pc \in {"walk", "done"} =>
        \A p \in tree \cup contents :
            \A k \in 1..Len(p) : ~Excluded(Take(p, k))

Str_src == <<"s", "r", "c">>

\* under ["src/", "!src/main.go"] the walk is over: src is excluded, the
\* negation matches src/main.go itself, and src/main.go is not in the output
C8_Witness ==
    /\ pc = "done"
    /\ fs = Tree1
    /\ Originals = <<Pat_src_dir, Pat_not_src_main_go>>
    /\ Excluded(<<Str_src>>)
    /\ ~Excluded(<<Str_src, Str_main_go>>)
    /\ <<Str_src, Str_main_go>> \notin tree \cup contents
    /\ <<Str_main_go>> \in contents

\* C12: if the rule file exists but cannot be opened or read, NewPatternList
\* returns an error and main exits before the output file is created and
\* before createTree is called.
C12_ConfigErrorStopsMain ==
    disk.rule \in {"noOpen", "readErr"} =>
        /\ pc \in {"start", "scan", "failed"}
        /\ ~disk.output
        /\ tree = {} /\ stack = <<>> /\ contents = {}

\* a read of the rule file failed after a rule had been compiled: main has exited
C12_Witness ==
    /\ disk.rule = "readErr"
    /\ pc = "failed"
    /\ patterns # <<>>
    /\ ~disk.output

\* the matcher excludes no entry of the working directory
NothingExcluded ==
    \A dir \in DOMAIN fs : \A i \in 1..Len(fs[dir]) :
        ~Excluded(Append(dir, fs[dir][i].name))

\* C13: when the rule file does not exist, NewPatternList creates an empty
\* file and returns an empty rule list with no error, and the traversal
\* proceeds with a matcher that excludes nothing.
C13_AbsentRuleFile ==
    (pc # "start" /\ disk.rule \in {"absent", "created"}) =>
        /\ disk.rule = "created"
        /\ disk.content = <<>>
        /\ patterns = <<>>
        /\ pc \in {"ready", "walk", "done"}
        /\ NothingExcluded

\* C13, amended: when the rule file does not exist and can be created, the
\* above; when it cannot be created, NewPatternList returns an error and main
\* exits before the output file is created and before the traversal.
C13_AbsentRuleFileCreatable ==
    (pc # "start" /\ disk.rule \in {"absent", "created"}) =>
        IF disk.writable
        THEN /\ disk.rule = "created"
             /\ disk.content = <<>>
             /\ patterns = <<>>
             /\ pc \in {"ready", "walk", "done"}
             /\ NothingExcluded
        ELSE /\ disk.rule = "absent"
             /\ pc = "failed"
             /\ ~disk.output
             /\ tree = {} /\ contents = {}

\* there was no rule file: one was created, and the walk went through src
C13_Witness ==
    /\ disk.rule = "created"
    /\ pc = "done"
    /\ fs = Tree1
    /\ <<Str_src, Str_main_go>> \in contents

\* an entry that one of the built-in skip sets or the size limit rules out
BuiltinSkipped(entry) ==
    \/ entry.name \in skipFiles
    \/ entry.isDir /\ entry.name \in skipDirs
    \/ ~entry.isDir /\ ToLower(Ext(entry.name)) \in skipExtensions
    \/ ~entry.isDir /\ entry.size > maxFileSize

Str_bin == <<"b", "i", "n">>

Str_big_dat == <<"b", "i", "g", ".", "d", "a", "t">>

\* C16: the built-in skip sets apply whatever the rule file says: no entry
\* they rule out is in the tree, a negation rule does not bring one back,
\* and a built-in directory name is skipped only when the entry is a
\* directory: a readable file of that name that no rule excludes is kept.
C16_BuiltinsUnconditional ==
    /\ \A p \in tree : p # <<>> => ~BuiltinSkipped(EntryAt(p))
    /\ pc = "done" =>
           \A dir \in tree \cap DOMAIN fs : \A i \in 1..Len(fs[dir]) :
               LET e == fs[dir][i]
               IN  (/\ ~e.isDir
                    /\ e.name \in skipDirs
                    /\ ~Excluded(Append(dir, e.name))
                    /\ ~BuiltinSkipped(e)
                    /\ e.readable) => Append(dir, e.name) \in tree

\* under the only rule "!build/" directory build and the oversized big.dat
\* are left out, and the file named bin is in the tree
C16_Witness ==
    /\ pc = "done"
    /\ fs = Tree1
    /\ Originals = <<Pat_not_build_dir>>
    /\ <<Str_build>> \notin tree
    /\ <<Str_big_dat>> \notin tree
    /\ <<Str_bin>> \in tree

----------------------------------------------------------------------------
(* SpecConc: two goroutines call Matches on one PatternList; a step of a   *)
(* call is one read of the list: its length, or one pattern of the loop    *)

Workers == {1, 2}

ConcRuleFiles == DetRuleFiles \cup {<<>>}

ConcPaths == {Str_keep_log, Str_debug_log, Str_build}

ConcStats == {"file", "dir", "statErr"}

IdleWorker ==
    [state |-> "idle", path |-> <<>>, stat |-> "none", relPath |-> <<>>,
     idx |-> 0, result |-> FALSE]

InitConc ==
    /\ pc = "scan"
    /\ lines \in ConcRuleFiles
    /\ patterns = <<>>
    /\ call = NoCall
    /\ memo = NoCall
    /\ wild = NoWild
    /\ segs = NoSegs
    /\ fs = NoFS
    /\ stack = <<>>
    /\ tree = {}
    /\ contents = {}
    /\ disk = NoDisk
    /\ workers = [w \in Workers |-> IdleWorker]
    /\ rec = NoRec

\* Matches up to the loop: the empty-list test, the clean path, os.Stat
BeginMatches(w) ==
    /\ pc = "ready"
    /\ workers[w].state = "idle"
    /\ \E path \in ConcPaths, stat \in ConcStats :
           workers' = [workers EXCEPT ![w] =
               IF Len(patterns) = 0 \/ stat = "statErr"
               THEN [state |-> "done", path |-> path, stat |-> stat,
                     relPath |-> <<>>, idx |-> 0, result |-> FALSE]
               ELSE [state |-> "loop", path |-> path, stat |-> stat,
                     relPath |-> Clean(path), idx |-> 1, result |-> FALSE]]
    /\ UNCHANGED <<pc, lines, patterns, call, memo, wild, segs, fs, stack, tree,
                   contents, disk, rec>>

\* one iteration of the loop over pl.patterns
StepMatches(w) ==
    /\ pc = "ready"
    /\ workers[w].state = "loop"
    /\ workers[w].idx <= Len(patterns)
    /\ workers' = [workers EXCEPT
           ![w].result = LoopStep(patterns[workers[w].idx], workers[w].relPath,
                                  workers[w].stat = "dir", workers[w].result),
           ![w].idx = workers[w].idx + 1]
    /\ UNCHANGED <<pc, lines, patterns, call, memo, wild, segs, fs, stack, tree,
                   contents, disk, rec>>

\* the loop is over: return result
ReturnMatches(w) ==
    /\ pc = "ready"
    /\ workers[w].state = "loop"
    /\ workers[w].idx > Len(patterns)
    /\ workers' = [workers EXCEPT ![w].state = "done"]
    /\ UNCHANGED <<pc, lines, patterns, call, memo, wild, segs, fs, stack, tree,
                   contents, disk, rec>>

\* the goroutine has used the verdict and is free for another call
NextCall(w) ==
    /\ pc = "ready"
    /\ workers[w].state = "done"
    /\ workers' = [workers EXCEPT ![w] = IdleWorker]
    /\ UNCHANGED <<pc, lines, patterns, call, memo, wild, segs, fs, stack, tree,
                   contents, disk, rec>>

NextConc ==
    \/ ScanLine
    \/ ScanDone
    \/ \E w \in Workers : BeginMatches(w)
    \/ \E w \in Workers : StepMatches(w)
    \/ \E w \in Workers : ReturnMatches(w)
    \/ \E w \in Workers : NextCall(w)

SpecConc == InitConc /\ [][NextConc]_vars

----------------------------------------------------------------------------
(* SpecRec: matchSegments run call by call.  rec.frames is the call stack, *)
(* innermost call first; a frame holds the arguments of its call and the   *)
(* place the call has got to; rec.ret is the value a call just returned.   *)

MaxRecSegs == 3

RecTokens == {<<"*", "*">>, <<"*", "a", "*">>, <<"a", "*">>, <<"*", "a">>, <<"a">>}

RecPatterns == SeqsUpTo(RecTokens, MaxRecSegs)

RecPaths == SeqsUpTo(PathTokens, MaxRecSegs)

\* a returned bool as rec.ret holds it
Ret(b) == IF b THEN "true" ELSE "false"

\* the bounds of the slice expressions of matchWildcard
matchWildcardInRange(pattern) ==
    IF pattern = <<"*">> THEN TRUE
    ELSE IF HasPrefix(pattern, <<"*">>) /\ HasSuffix(pattern, <<"*">>)
    THEN 1 <= Len(pattern) - 1
    ELSE IF HasPrefix(pattern, <<"*">>)
    THEN 1 <= Len(pattern)
    ELSE IF HasSuffix(pattern, <<"*">>)
    THEN 0 <= Len(pattern) - 1
    ELSE TRUE

\* the second call under "**" made with the path it was given
ConsumeUnderStarStuck(patternSegs, pathSegs) ==
    [patternSegs |-> patternSegs, pathSegs |-> pathSegs, stage |-> "enter"]

\* p.matchSegments(patternSegs[1:], pathSegs)
SkipStar(patternSegs, pathSegs) ==
    [patternSegs |-> Tail(patternSegs), pathSegs |-> pathSegs, stage |-> "enter"]

\* p.matchSegments(patternSegs, pathSegs[1:])
ConsumeUnderStar(patternSegs, pathSegs) ==
    [patternSegs |-> patternSegs, pathSegs |-> Tail(pathSegs), stage |-> "enter"]

\* p.matchSegments(patternSegs[1:], pathSegs[1:])
ConsumeBoth(patternSegs, pathSegs) ==
    [patternSegs |-> Tail(patternSegs), pathSegs |-> Tail(pathSegs), stage |-> "enter"]

InitRec ==
    /\ pc = "rec"
    /\ lines = <<>>
    /\ patterns = <<>>
    /\ call = NoCall
    /\ memo = NoCall
    /\ wild = NoWild
    /\ segs \in {[patternSegs |-> ps, pathSegs |-> qs, done |-> FALSE, result |-> FALSE] :
                    ps \in RecPatterns, qs \in RecPaths}
    /\ fs = NoFS
    /\ stack = <<>>
    /\ tree = {}
    /\ contents = {}
    /\ disk = NoDisk
    /\ workers = NoWorkers
    /\ rec = NoRec

\* Pattern.matches calls p.matchSegments(p.segments, pathSegments)
CallRec ==
    /\ pc = "rec"
    /\ ~segs.done
    /\ rec = NoRec
    /\ rec' = [frames |-> <<[patternSegs |-> segs.patternSegs,
                             pathSegs |-> segs.pathSegs, stage |-> "enter"]>>,
               ret |-> "none"]
    /\ UNCHANGED <<pc, lines, patterns, call, memo, wild, segs, fs, stack, tree,
                   contents, disk, workers>>

\* the innermost call runs from its entry to its return or its next call
RecEnter ==
    /\ pc = "rec"
    /\ rec.frames # <<>>
    /\ rec.ret = "none"
    /\ LET f == Head(rec.frames)
           ps == f.patternSegs
           qs == f.pathSegs
           callers == Tail(rec.frames)
       IN  IF ps = <<>>
           THEN /\ rec' = [frames |-> callers, ret |-> Ret(qs = <<>>)]
                /\ pc' = pc
           ELSE IF qs = <<>>
           THEN /\ rec' = [frames |-> callers,
                           ret |-> Ret(\A i \in 1..Len(ps) : ps[i] = <<"*", "*">>)]
                /\ pc' = pc
           ELSE IF Head(ps) = <<"*", "*">>
           THEN /\ rec' = [frames |-> <<SkipStar(ps, qs), [f EXCEPT !.stage = "first"]>>
                                          \o callers,
                           ret |-> "none"]
                /\ pc' = pc
           ELSE IF ~matchWildcardInRange(Head(ps))
           THEN /\ rec' = rec
                /\ pc' = "panic"
           ELSE IF matchWildcard(Head(ps), Head(qs))
           THEN /\ rec' = [frames |-> <<ConsumeBoth(ps, qs), [f EXCEPT !.stage = "tail"]>>
                                          \o callers,
                           ret |-> "none"]
                /\ pc' = pc
           ELSE /\ rec' = [frames |-> callers, ret |-> "false"]
                /\ pc' = pc
    /\ UNCHANGED <<lines, patterns, call, memo, wild, segs, fs, stack, tree,
                   contents, disk, workers>>

\* a call has returned into its caller: the caller returns the value, or,
\* after a false first call under "**", makes the second call
RecReturn ==
    /\ pc = "rec"
    /\ rec.frames # <<>>
    /\ rec.ret # "none"
    /\ LET f == Head(rec.frames)
           callers == Tail(rec.frames)
       IN  IF f.stage = "first" /\ rec.ret = "false"
           THEN rec' = [frames |-> <<ConsumeUnderStar(f.patternSegs, f.pathSegs),
                                     [f EXCEPT !.stage = "second"]>> \o callers,
                        ret |-> "none"]
           ELSE rec' = [frames |-> callers, ret |-> rec.ret]
    /\ UNCHANGED <<pc, lines, patterns, call, memo, wild, segs, fs, stack, tree,
                   contents, disk, workers>>

\* the outermost call has returned to Pattern.matches
RecFinish ==
    /\ pc = "rec"
    /\ rec.frames = <<>>
    /\ rec.ret # "none"
    /\ ~segs.done
    /\ segs' = [segs EXCEPT !.done = TRUE, !.result = (rec.ret = "true")]
    /\ UNCHANGED <<pc, lines, patterns, call, memo, wild, fs, stack, tree, contents,
                   disk, workers, rec>>

NextRec == CallRec \/ RecEnter \/ RecReturn \/ RecFinish

\* a goroutine that can run does run
SpecRec == InitRec /\ [][NextRec]_vars /\ WF_vars(NextRec)

\* what is left to match in a call: pattern segments plus path segments
Measure(f) == Len(f.patternSegs) + Len(f.pathSegs)

\* C18: matchSegments terminates with a boolean and never panics: every
\* recursive call has strictly less left (pattern segments plus path
\* segments) than its caller, also with several "**", and no slice of
\* matchWildcard is out of range.
C18_Terminates ==
    /\ [](pc # "panic")
    /\ [](\A k \in 1..(Len(rec.frames) - 1) :
             Measure(rec.frames[k]) < Measure(rec.frames[k + 1]))
    /\ [](segs.done =>
             /\ rec.ret \in {"true", "false"}
             /\ segs.result = matchSegments(segs.patternSegs, segs.pathSegs))
    /\ <>(segs.done)

\* "**", "**", "a" against a/b: three calls deep, the second "**" has given
\* up on the empty run and goes on with b
C18_Witness ==
    /\ segs.patternSegs = <<<<"*", "*">>, <<"*", "*">>, <<"a">>>>
    /\ segs.pathSegs = <<<<"a">>, <<"b">>>>
    /\ Len(rec.frames) = 3
    /\ rec.frames[2].stage = "second"
    /\ rec.frames[1].pathSegs = <<<<"b">>>>

----------------------------------------------------------------------------
(* SpecCompile: NewPatternList over rule files of every short text *)

MaxLineLen == 3

LineChars == {"a", "*", "?", "!", "/", "#", " "}

Pat_bang == <<"!">>

Pat_slash == <<"/">>

Pat_bang_slash == <<"!", "/">>

Pat_blank == <<" ">>

\* lines that several-line rule files are made of
EdgeLines == {Pat_bang, Pat_slash, Pat_bang_slash, Pat_blank, Pat_comment, Pat_padded_star_log}

\* one-line files of every text up to MaxLineLen, and files of edge lines
CompileFiles ==
    {<<t>> : t \in StringsUpTo(LineChars, MaxLineLen)} \cup {<<>>}
        \cup SeqsUpTo(EdgeLines, MaxRules + 1)

CompileDisks ==
    {LoadedDisk(f) : f \in CompileFiles}
        \cup {[LoadedDisk(f) EXCEPT !.rule = "readErr"] : f \in CompileFiles}
        \cup {[LoadedDisk(<<>>) EXCEPT !.rule = "absent"]}

InitCompile ==
    /\ pc = "start"
    /\ lines = <<>>
    /\ patterns = <<>>
    /\ call = NoCall
    /\ memo = NoCall
    /\ wild = NoWild
    /\ segs = NoSegs
    /\ fs = NoFS
    /\ stack = <<>>
    /\ tree = {}
    /\ contents = {}
    /\ disk \in CompileDisks
    /\ workers = NoWorkers
    /\ rec = NoRec

NextCompile == OpenRuleFile \/ ScanLine \/ ScanFail \/ ScanDone

SpecCompile == InitCompile /\ [][NextCompile]_vars

\* the lines of a file that are rules: trimmed, non-empty, not a comment
KeptLines(file) ==
    LET trimmed == [i \in 1..Len(file) |-> TrimSpace(file[i])]
        IsRule(t) == t # <<>> /\ Head(t) # "#"
    IN  SelectSeq(trimmed, IsRule)

\* the lines of the rule file the scanner has gone past
ScannedLines == Take(disk.content, Len(disk.content) - Len(lines))

\* C14: compilation preserves order: the list holds one rule for each line
\* that is non-empty after trimming and does not begin with "#", in the order
\* of the file; AddPattern never fails or panics, whatever the text ("!",
\* "/" and "!/" included).
C14_CompileOrder ==
    /\ pc # "panic"
    /\ pc \in {"scan", "ready"} => Originals = KeptLines(ScannedLines)
    /\ pc = "ready" => lines = <<>>

\* a comment, then "!/" and "!" were compiled to two rules in that order
C14_Witness ==
    /\ pc = "ready"
    /\ disk.content = <<Pat_comment, Pat_bang_slash, Pat_bang>>
    /\ Originals = <<Pat_bang_slash, Pat_bang>>

\* C17: a rule's exact flag is true iff its pattern text contains neither "*"
\* nor "?"; every rule with a wildcard character is evaluated by segment
\* matching.
C17_ExactFlag ==
    \A i \in 1..Len(patterns) :
        patterns[i].isExact <=> ~HasWildcardChar(RuleText(patterns[i].original))

====
